---------------------------- MODULE Spec2Model ----------------------------
(***************************************************************************)
(* A model of imdb-renamer.py: the name normalisation functions, the retry *)
(* decorator, the IMDb lookup, the operator prompt, the rename and the     *)
(* main loop over the folders of BASE_PATH.                                *)
(*                                                                         *)
(* Strings are sequences of one-character strings, so that the regular     *)
(* expressions of the source act on characters and word boundaries as      *)
(* Python's re module does.                                                *)
(***************************************************************************)
EXTENDS Integers, Sequences, FiniteSets, TLC

(***************************************************************************)
(* Characters: the classes \d, \w and \s of Python's re, and str.upper /   *)
(* re.IGNORECASE on ASCII letters.                                         *)
(***************************************************************************)
DigitChars == << "0", "1", "2", "3", "4", "5", "6", "7", "8", "9" >>

IsDigit(c) == \E i \in 1..Len(DigitChars) : DigitChars[i] = c

DigitVal(c) == (CHOOSE i \in 1..Len(DigitChars) : DigitChars[i] = c) - 1

UpperOf == [ a |-> "A", b |-> "B", c |-> "C", d |-> "D", e |-> "E", f |-> "F",
             g |-> "G", h |-> "H", i |-> "I", j |-> "J", k |-> "K", l |-> "L",
             m |-> "M", n |-> "N", o |-> "O", p |-> "P", q |-> "Q", r |-> "R",
             s |-> "S", t |-> "T", u |-> "U", v |-> "V", w |-> "W", x |-> "X",
             y |-> "Y", z |-> "Z" ]

UpperLetters == { UpperOf[c] : c \in DOMAIN UpperOf }

IsWordChar(c) == IsDigit(c) \/ c \in DOMAIN UpperOf \/ c \in UpperLetters \/ c = "_"

IsSpace(c) == c = " "

ToUpper(c) == IF c \in DOMAIN UpperOf THEN UpperOf[c] ELSE c

\* str.upper()
StrUpper(s) == [ i \in 1..Len(s) |-> ToUpper(s[i]) ]

(***************************************************************************)
(* The pieces of re the source uses.  A matcher M(s, i) gives the length   *)
(* of the match of a pattern that starts at position i of s, or 0 when the *)
(* pattern does not match there (no pattern of the source matches the      *)
(* empty string).                                                          *)
(***************************************************************************)
WordAt(s, k) == k >= 1 /\ k <= Len(s) /\ IsWordChar(s[k])

\* \b between s[i-1] and s[i]
Boundary(s, i) == WordAt(s, i - 1) # WordAt(s, i)

\* the length of the longest run of characters of class C(_) from position i
RunLen(s, i, C(_)) ==
    IF i > Len(s) THEN 0
    ELSE CHOOSE d \in 0..(Len(s) - i + 1) :
            /\ \A k \in i..(i + d - 1) : C(s[k])
            /\ (i + d > Len(s) \/ ~C(s[i + d]))

\* a literal at position i; "." in the literal of a pattern is handled by
\* the caller
LitAt(s, i, lit, ignorecase) ==
    /\ i >= 1
    /\ i + Len(lit) - 1 <= Len(s)
    /\ \A k \in 1..Len(lit) :
          IF ignorecase THEN ToUpper(s[i + k - 1]) = ToUpper(lit[k])
                        ELSE s[i + k - 1] = lit[k]

\* re.sub(pattern, repl, s): leftmost non-overlapping matches, left to right
ReSub(s, M(_, _), repl) ==
    LET n == Len(s)
        out[i \in 1..(n + 1)] ==
            IF i > n THEN << >>
            ELSE LET m == M(s, i)
                 IN  IF m > 0 THEN repl \o out[i + m]
                              ELSE << s[i] >> \o out[i + 1]
    IN  out[1]

\* re.search(pattern, s): the start of the leftmost match, 0 when there is none
ReSearch(s, M(_, _)) ==
    IF \E i \in 1..Len(s) : M(s, i) > 0
    THEN CHOOSE i \in 1..Len(s) :
            /\ M(s, i) > 0
            /\ \A j \in 1..(i - 1) : M(s, j) = 0
    ELSE 0

\* open .*? close, as in \[.*?\] and \(.*?\)
MatchGroup(s, i, open, close) ==
    IF s[i] = open /\ \E j \in (i + 1)..Len(s) : s[j] = close
    THEN (CHOOSE j \in (i + 1)..Len(s) :
             s[j] = close /\ \A k \in (i + 1)..(j - 1) : s[k] # close) - i + 1
    ELSE 0

\* \s+
MatchSpaces(s, i) == RunLen(s, i, IsSpace)

\* str.strip()
Strip(s) ==
    IF \A i \in 1..Len(s) : IsSpace(s[i]) THEN << >>
    ELSE LET a == CHOOSE i \in 1..Len(s) :
                     ~IsSpace(s[i]) /\ \A j \in 1..(i - 1) : IsSpace(s[j])
             b == CHOOSE i \in 1..Len(s) :
                     ~IsSpace(s[i]) /\ \A j \in (i + 1)..Len(s) : IsSpace(s[j])
         IN  SubSeq(s, a, b)

\* str.split(): the maximal runs of non-whitespace characters
Split(s) ==
    LET n == Len(s)
        NonSpace(c) == ~IsSpace(c)
        out[i \in 1..(n + 1)] ==
            IF i > n THEN << >>
            ELSE IF IsSpace(s[i]) THEN out[i + 1]
            ELSE LET d == RunLen(s, i, NonSpace)
                 IN  << SubSeq(s, i, i + d - 1) >> \o out[i + d]
    IN  out[1]

\* " ".join(words)
Join(words) ==
    LET out[i \in 1..(Len(words) + 1)] ==
            IF i > Len(words) THEN << >>
            ELSE IF i = Len(words) THEN words[i]
            ELSE words[i] \o << " " >> \o out[i + 1]
    IN  out[1]

\* needle in hay
Contains(hay, needle) ==
    \E i \in 1..(Len(hay) - Len(needle) + 1) : LitAt(hay, i, needle, FALSE)

\* int(s) of a string of four digits
Int4(s) == 1000 * DigitVal(s[1]) + 100 * DigitVal(s[2]) + 10 * DigitVal(s[3]) + DigitVal(s[4])

(***************************************************************************)
(* CONFIG                                                                  *)
(***************************************************************************)
MAX_RETRIES == 3

CURRENT_YEAR == 2026

MAX_SEARCH_RESULTS == 10

THREAD_POOL_WORKERS == 5

EXTRANEOUS_WORDS ==
    << << "C", "O", "M", "P", "L", "E", "T", "E" >>,
       << "7", "2", "0", "p" >>,
       << "1", "0", "8", "0", "p" >>,
       << "B", "R", "r", "i", "p" >>,
       << "B", "l", "u", "R", "a", "y" >>,
       << "H", "D", "R", "i", "p" >>,
       << "s", "u", "j", "a", "i", "d", "r" >>,
       << "p", "i", "m", "p", "r", "g" >>,
       << "Y", "T", "S" >>,
       << "M", "X" >>,
       << "x", "2", "6", "4" >>,
       << "x", "2", "6", "5" >>,
       << "H", "E", "V", "C" >>,
       << "A", "A", "C" >>,
       << "W", "E", "B", "R", "i", "p" >>,
       << "W", "e", "b", "D", "L" >>,
       << "H", ".", "2", "6", "4" >>,
       << "H", ".", "2", "6", "5" >>,
       << "D", "V", "D", "r", "i", "p" >>,
       << "B", "R", "R", "i", "p" >> >>

(***************************************************************************)
(* The name functions                                                      *)
(***************************************************************************)
\* \b\d+p\b
MatchResolution(s, i) ==
    LET d == RunLen(s, i, IsDigit)
    IN  IF /\ Boundary(s, i)
           /\ d > 0
           /\ i + d <= Len(s)
           /\ s[i + d] = "p"
           /\ Boundary(s, i + d + 1)
        THEN d + 1 ELSE 0

\* \[.*?\]|\b\d+p\b|\.|\-|_
MatchTag(s, i) ==
    IF MatchGroup(s, i, "[", "]") > 0 THEN MatchGroup(s, i, "[", "]")
    ELSE IF MatchResolution(s, i) > 0 THEN MatchResolution(s, i)
    ELSE IF s[i] \in { ".", "-", "_" } THEN 1
    ELSE 0

\* [\(\)]
MatchParen(s, i) == IF s[i] \in { "(", ")" } THEN 1 ELSE 0

\* \b(19|20)\d{2}\b
MatchYear(s, i) ==
    IF /\ Boundary(s, i)
       /\ (LitAt(s, i, << "1", "9" >>, FALSE) \/ LitAt(s, i, << "2", "0" >>, FALSE))
       /\ i + 3 <= Len(s)
       /\ IsDigit(s[i + 2])
       /\ IsDigit(s[i + 3])
       /\ Boundary(s, i + 4)
    THEN 4 ELSE 0

sanitize_folder_name(folder_name) ==
    LET tagless    == ReSub(folder_name, MatchTag, << " " >>)
        parenless  == ReSub(tagless, MatchParen, << " " >>)
        clean_name == Strip(ReSub(parenless, MatchSpaces, << " " >>))
        year_match == ReSearch(clean_name, MatchYear)
    IN  IF year_match > 0
        THEN LET year == Int4(SubSeq(clean_name, year_match, year_match + 3))
             IN  IF 1900 <= year /\ year <= CURRENT_YEAR
                 THEN Strip(SubSeq(clean_name, 1, year_match - 1))
                         \o << " " >> \o SubSeq(clean_name, year_match, year_match + 3)
                 ELSE clean_name
        ELSE clean_name

\* None, as extract_year returns it; it is falsy like the empty string
None == << >>

\* an extract_year that does not compare the year with 1900 and CURRENT_YEAR
extract_year_any(folder_name) ==
    LET match == ReSearch(folder_name, MatchYear)
    IN  IF match > 0 THEN SubSeq(folder_name, match, match + 3) ELSE None

extract_year(folder_name) ==
    LET match == ReSearch(folder_name, MatchYear)
    IN  IF match > 0
        THEN LET year == Int4(SubSeq(folder_name, match, match + 3))
             IN  IF 1900 <= year /\ year <= CURRENT_YEAR
                 THEN SubSeq(folder_name, match, match + 3)
                 ELSE None
        ELSE None

IllegalChars == { "<", ">", ":", "\"", "/", "\\", "|", "?", "*" }

safe_name(name) == [ i \in 1..Len(name) |-> IF name[i] \in IllegalChars THEN "-" ELSE name[i] ]

\* " \((19|20)\d{2}\) - IMDb[-:]\s?\d+(\.\d+)?$" from position k of s
ProperSuffixAt(s, k) ==
    /\ LitAt(s, k, << " ", "(" >>, FALSE)
    /\ (LitAt(s, k + 2, << "1", "9" >>, FALSE) \/ LitAt(s, k + 2, << "2", "0" >>, FALSE))
    /\ k + 5 <= Len(s)
    /\ IsDigit(s[k + 4])
    /\ IsDigit(s[k + 5])
    /\ LitAt(s, k + 6, << ")", " ", "-", " ", "I", "M", "D", "b" >>, FALSE)
    /\ k + 14 <= Len(s)
    /\ s[k + 14] \in { "-", ":" }
    /\ LET q  == IF k + 15 <= Len(s) /\ IsSpace(s[k + 15]) THEN k + 16 ELSE k + 15
           d  == RunLen(s, q, IsDigit)
           d2 == RunLen(s, q + d + 1, IsDigit)
       IN  /\ d > 0
           /\ \/ q + d = Len(s) + 1
              \/ /\ q + d <= Len(s)
                 /\ s[q + d] = "."
                 /\ d2 > 0
                 /\ q + d + 1 + d2 = Len(s) + 1

\* re.match(r".* \((19|20)\d{2}\) - IMDb[-:]\s?\d+(\.\d+)?$", folder_name)
already_properly_named(folder_name) ==
    \E k \in 1..Len(folder_name) : ProperSuffixAt(folder_name, k)

simplify_name(sanitized_name) ==
    LET words            == Split(sanitized_name)
        simplified_words == SelectSeq(words, LAMBDA word :
                                \A i \in 1..Len(EXTRANEOUS_WORDS) :
                                    StrUpper(word) # EXTRANEOUS_WORDS[i])
        MatchParens(s, i) == MatchGroup(s, i, "(", ")")
    IN  Strip(ReSub(Join(simplified_words), MatchParens, << >>))

\* a pattern at position i, "." matching any character, under re.IGNORECASE
PatAt(s, i, pat) ==
    /\ i + Len(pat) - 1 <= Len(s)
    /\ \A k \in 1..Len(pat) :
          pat[k] = "." \/ ToUpper(s[i + k - 1]) = ToUpper(pat[k])

\* \b<word>\s?\d+\b under re.IGNORECASE
MatchNumbered(s, i, word) ==
    LET q == IF i + Len(word) <= Len(s) /\ IsSpace(s[i + Len(word)])
             THEN i + Len(word) + 1 ELSE i + Len(word)
        d == RunLen(s, q, IsDigit)
    IN  IF Boundary(s, i) /\ PatAt(s, i, word) /\ d > 0 /\ Boundary(s, q + d)
        THEN q + d - i ELSE 0

\* \b\d{3,4}p\b under re.IGNORECASE
MatchEncoding(s, i) ==
    LET d == RunLen(s, i, IsDigit)
    IN  IF /\ Boundary(s, i)
           /\ d \in { 3, 4 }
           /\ i + d <= Len(s)
           /\ ToUpper(s[i + d]) = "P"
           /\ Boundary(s, i + d + 1)
        THEN d + 1 ELSE 0

\* \b(alt_1|...|alt_n)\b under re.IGNORECASE: the first alternative that matches
MatchAlternatives(s, i, alts) ==
    LET Hit(a) == PatAt(s, i, alts[a]) /\ Boundary(s, i + Len(alts[a]))
    IN  IF Boundary(s, i) /\ \E a \in 1..Len(alts) : Hit(a)
        THEN Len(alts[CHOOSE a \in 1..Len(alts) : Hit(a) /\ \A b \in 1..(a - 1) : ~Hit(b)])
        ELSE 0

EncodingTags ==
    << << "B", "R", "R", "i", "p" >>,
       << "B", "l", "u", "R", "a", "y" >>,
       << "H", "D", "R", "i", "p" >>,
       << "W", "e", "b", "D", "L" >>,
       << "W", "E", "B", "R", "i", "p" >>,
       << "x", "2", "6", "4" >>,
       << "x", "2", "6", "5" >>,
       << "H", "E", "V", "C" >>,
       << "A", "A", "C" >>,
       << "H", ".", "2", "6", "4" >>,
       << "H", ".", "2", "6", "5" >>,
       << "D", "V", "D", "r", "i", "p" >> >>

GroupTags ==
    << << "s", "u", "j", "a", "i", "d", "r" >>,
       << "p", "i", "m", "p", "r", "g" >>,
       << "Y", "T", "S" >>,
       << "M", "X" >> >>

extract_core_title(sanitized_name) ==
    LET MatchSeason(s, i)  == MatchNumbered(s, i, << "S", "e", "a", "s", "o", "n" >>)
        MatchEpisode(s, i) == MatchNumbered(s, i, << "E", "p", "i", "s", "o", "d", "e" >>)
        MatchEnc(s, i)     == MatchAlternatives(s, i, EncodingTags)
        MatchGrp(s, i)     == MatchAlternatives(s, i, GroupTags)
        seasonless  == ReSub(sanitized_name, MatchSeason, << >>)
        episodeless == ReSub(seasonless, MatchEpisode, << >>)
        plain       == ReSub(episodeless, MatchEncoding, << >>)
        untagged    == ReSub(plain, MatchEnc, << >>)
        ungrouped   == ReSub(untagged, MatchGrp, << >>)
    IN  Strip(ReSub(ungrouped, MatchSpaces, << " " >>))

(***************************************************************************)
(* Candidates, ranking and the target name                                 *)
(***************************************************************************)
\* "Unknown Year", the default of movie.get("year", ...): a year that equals
\* no year of a folder name
UnknownYear == -1

\* str(n) of an integer n >= 0
IntToStr(n) ==
    LET digits[k \in Nat] ==
            IF k < 10 THEN << DigitChars[k + 1] >>
            ELSE digits[k \div 10] \o << DigitChars[(k % 10) + 1] >>
    IN  digits[n]

\* int(s) of a string of digits
StrToInt(s) ==
    LET val[k \in 0..Len(s)] ==
            IF k = 0 THEN 0 ELSE 10 * val[k - 1] + DigitVal(s[k])
    IN  val[Len(s)]

\* f"{choice['year']}"
YearStr(year) ==
    IF year = UnknownYear THEN << "U", "n", "k", "n", "o", "w", "n", " ", "Y", "e", "a", "r" >> ELSE IntToStr(year)

\* f"{choice['rating']}" of a float with one decimal, held in tenths
RatingStr(rating) == IntToStr(rating \div 10) \o << "." >> \o IntToStr(rating % 10)

\* the sort key of lines 299 and 301, and its order
SortKey(x, year) ==
    IF year # None THEN << x.year = StrToInt(year), x.votes >>
                   ELSE << FALSE, x.votes >>

KeyLess(a, b) == \/ (~a[1] /\ b[1])
                 \/ (a[1] = b[1] /\ a[2] < b[2])

Reverse(s) == [ i \in 1..Len(s) |-> s[Len(s) + 1 - i] ]

\* list.sort(key=...): a stable ascending sort, each element inserted after
\* the elements whose key is not greater
StableSort(s, year) ==
    LET Insert(sorted, x) ==
            LET p == Cardinality({ k \in 1..Len(sorted) :
                        ~KeyLess(SortKey(x, year), SortKey(sorted[k], year)) })
            IN  SubSeq(sorted, 1, p) \o << x >> \o SubSeq(sorted, p + 1, Len(sorted))
        upto[n \in 0..Len(s)] ==
            IF n = 0 THEN << >> ELSE Insert(upto[n - 1], s[n])
    IN  upto[Len(s)]

\* a descending sort that turns the sorted list around
rank_unstable(choices, year) == Reverse(StableSort(choices, year))

\* choices.sort(key=..., reverse=True): the list is reversed, sorted stably and
\* reversed again, so that equal keys keep their order
rank(choices, year) == Reverse(StableSort(Reverse(choices), year))

\* lines 201-203 of rename_folder; a choice without year or rating (a custom
\* title) raises KeyError
HasDetails(choice) == { "year", "rating" } \subseteq DOMAIN choice

new_name(choice) ==
    choice.title \o << " ", "(" >> \o YearStr(choice.year)
        \o << ")", " ", "-", " ", "I", "M", "D", "b", "-", " " >> \o RatingStr(choice.rating)

safe_new_name(choice) == safe_name(new_name(choice))

(***************************************************************************)
(* The retry decorator (lines 42-59)                                       *)
(***************************************************************************)
\* the while condition of the wrapper
retry_may_call(attempts, max_retries) == attempts < max_retries

\* an except branch that gives up one attempt late
retry_on_error_late(attempts, max_retries) ==
    [ attempts |-> attempts + 1,
      reraise  |-> attempts + 1 > max_retries ]

\* the except branch: the attempt is counted, and the error is raised to the
\* caller once max_retries attempts are used up; otherwise the wrapper
\* sleeps and calls again
retry_on_error(attempts, max_retries) ==
    [ attempts |-> attempts + 1,
      reraise  |-> attempts + 1 >= max_retries ]

(***************************************************************************)
(* The environment of a run: the folders of BASE_PATH, the catalog and the *)
(* operator                                                                *)
(***************************************************************************)
MaxFolders == 2

MaxHandles == 2

\* the names os.listdir can return
RawNames ==
    { << "U", "p", " ", "(", "2", "0", "0", "9", ")", " ", "-", " ", "I", "M", "D", "b", "-", " ", "8", ".", "3" >>,
      << "[", "2", "0", "0", "9", "]", " ", "U", "p", " ", "Y", "T", "S", " ", "x", "2", "6", "4" >>,
      << "U", "p", " ", "B", "l", "u", "R", "a", "y" >>,
      << "U", "p", " ", "Y", "T", "S" >>,
      << "a", ".", "t", "x", "t" >> }

\* the one entry of the listing that is a file, not a directory
FileNames == { << "a", ".", "t", "x", "t" >> }

\* what fetch_movie_details returns for the movies of the catalog
Movies ==
    { [ title |-> << "U", "p" >>, year |-> 2009, rating |-> 83, votes |-> 100 ],
      [ title |-> << "U", "p", ":", " ", "2" >>, year |-> UnknownYear, rating |-> 0, votes |-> 5 ],
      [ title |-> << "O", "x" >>, year |-> 1895, rating |-> 74, votes |-> 5 ] }

\* the sequences without repetition over S, of length at most n
Arrangements(S, n) ==
    LET upto[k \in 0..n] ==
            IF k = 0 THEN { << >> }
            ELSE upto[k - 1] \cup
                 { Append(s, x) : s \in { t \in upto[k - 1] : Len(t) = k - 1 }, x \in S }
    IN  { s \in upto[n] : \A i, j \in 1..Len(s) : i # j => s[i] # s[j] }

\* what the operator can type at a prompt
OperatorInputs ==
    { << >>, << "1" >>, << "2" >>, << "3" >>, << "Y", "e", "s" >> }

\* what the operator can type when asked for a custom name
CustomNames == { << >>, << "Y", "e", "s" >>, << " " >> }

\* str.isdigit()
IsDigits(s) == Len(s) > 0 /\ \A i \in 1..Len(s) : IsDigit(s[i])

\* str.lower(), on the letters of the answers
StrLower(s) ==
    [ i \in 1..Len(s) |->
        IF \E c \in DOMAIN UpperOf : UpperOf[c] = s[i]
        THEN CHOOSE c \in DOMAIN UpperOf : UpperOf[c] = s[i]
        ELSE s[i] ]

(***************************************************************************)
(* The state of a run of main()                                            *)
(***************************************************************************)
VARIABLES
    base_exists,     \* os.path.exists(base_path)
    listing,         \* os.listdir(base_path), read once
    dirs,            \* the directories of base_path, as they are now
    dry_run,         \* args.dry_run
    idx,             \* the position of the for loop in listing
    pc,              \* where main is: "start", "loop", "lookup", "prompt",
                     \* "prompt_custom", "rename", "ask_retry", "ask_custom",
                     \* "done", or "crashed" (an exception left main)
    sanitized_name,  \* locals of the loop body
    year,
    stage,           \* the step whose get_movie_details call is running
    query,           \* its argument
    attempts,        \* the attempts counter of its retry wrapper
    choices,
    final_choice,
    answer,          \* the line the operator typed at step 5, until input() returns it
    calls,           \* history: the get_movie_details calls for the entry at
                     \* idx (at "loop": for the entry before it), in order
    searched,        \* history: the positions of listing a lookup was made for
    prompted,        \* history: the positions of listing the operator was asked about
    renames,         \* history: the os.rename calls
    reports,         \* history: the "Would rename" lines of a dry run
    \* one call of a function wrapped by retry(max_retries, delay)
    rt_max,          \* max_retries
    rt_pc,           \* "call", "sleep", "returned", "raised", "fell_through"
    rt_attempts,     \* attempts
    rt_result,       \* what the wrapper returned or raised
    rt_log,          \* history: the outcome of each invocation of the function
    rt_sleeps,       \* history: the number of time.sleep(delay) calls
    \* one sort of the choices of step 1 (lines 296-301)
    rk_pc,           \* "unsorted", "sorted"
    rk_year,         \* year
    rk_choices,      \* choices
    rk_input,        \* history: choices before the sort
    \* one call of get_movie_details, fetch by fetch
    lk_pc,           \* "call", "fetching", "draining", "returned", "raised"
    lk_attempts,     \* attempts of the wrapper of get_movie_details
    lk_results,      \* search_results
    lk_tasks,        \* the futures: state and attempts of each fetch_movie_details
    lk_yielded,      \* the futures as_completed has yielded, in order
    lk_details,      \* details
    lk_fetches,      \* history: ia.get_movie invocations per movie, over the call
    lk_searches,     \* history: ia.search_movie invocations, over the call
    \* the name functions applied to one folder name
    nm_pc,           \* "input", "sanitized", "sanitized_twice", "year", "simplified"
    nm_name,         \* folder_name
    nm_sanitized,    \* sanitize_folder_name(folder_name)
    nm_out,          \* what the function applied last returned
    \* one call of prompt_user_choice
    pr_pc,           \* "prompt", "custom", "returned"
    pr_choices,      \* choices
    pr_line,         \* the line the operator typed, until input() returns it
    pr_result,       \* what the call returned
    \* the thread pool of one run of the body of get_movie_details
    pl_pc,           \* "call", "fetching", "draining", "returned", "raised"
    pl_found,        \* the number of results ia.search_movie returned
    pl_tasks         \* the state of the future of each submitted fetch

mainVars == << base_exists, listing, dirs, dry_run, idx, pc, sanitized_name, year,
               stage, query, attempts, choices, final_choice, answer, calls, searched,
               prompted, renames, reports >>

retryVars == << rt_max, rt_pc, rt_attempts, rt_result, rt_log, rt_sleeps >>

rankVars == << rk_pc, rk_year, rk_choices, rk_input >>

lookupVars == << lk_pc, lk_attempts, lk_results, lk_tasks, lk_yielded, lk_details,
                 lk_fetches, lk_searches >>

nameVars == << nm_pc, nm_name, nm_sanitized, nm_out >>

poolVars == << pl_pc, pl_found, pl_tasks >>

promptVars == << pr_pc, pr_choices, pr_line, pr_result >>

Stages == << "sanitized", "simplified", "core-title", "custom" >>

NoChoice == [ title |-> << >>, none |-> TRUE ]

InitMain ==
    /\ base_exists \in BOOLEAN
    /\ listing \in IF base_exists THEN Arrangements(RawNames, MaxFolders) ELSE { << >> }
    /\ dirs = { listing[i] : i \in 1..Len(listing) } \ FileNames
    /\ dry_run \in BOOLEAN
    /\ idx = 1
    /\ pc = "start"
    /\ sanitized_name = << >>
    /\ year = None
    /\ stage = "none"
    /\ query = << >>
    /\ attempts = 0
    /\ choices = << >>
    /\ final_choice = NoChoice
    /\ answer = << >>
    /\ calls = << >>
    /\ searched = {}
    /\ prompted = {}
    /\ renames = << >>
    /\ reports = << >>

\* lines 258-262
Start ==
    /\ pc = "start"
    /\ pc' = IF base_exists THEN "loop" ELSE "done"
    /\ UNCHANGED << base_exists, listing, dirs, dry_run, idx, sanitized_name, year,
                    stage, query, attempts, choices, final_choice, calls, searched,
                    prompted, renames, reports >>
    /\ UNCHANGED answer
    /\ UNCHANGED << retryVars, rankVars, lookupVars, nameVars, promptVars, poolVars >>

\* continue, or the end of the loop body: the next entry of the listing.  The
\* locals of the loop body are written before they are read in every
\* iteration; they are cleared here.
Continue ==
    /\ pc' = "loop"
    /\ idx' = idx + 1
    /\ sanitized_name' = << >>
    /\ year' = None
    /\ stage' = "none"
    /\ query' = << >>
    /\ attempts' = 0
    /\ choices' = << >>
    /\ final_choice' = NoChoice

\* a call get_movie_details(ia, q) for step st begins, after the calls in cs
BeginLookup(st, q, cs) ==
    /\ pc' = "lookup"
    /\ stage' = st
    /\ query' = q
    /\ attempts' = 0
    /\ calls' = Append(cs, [ stage |-> st, query |-> q, result |-> "pending" ])
    /\ searched' = searched \cup { idx }

\* a loop that skips the files only
skip_entry_files_only(folder, directories) == folder \notin directories

\* lines 266-271: files and properly named folders are skipped
skip_entry(folder, directories) ==
    folder \notin directories \/ already_properly_named(folder)

\* lines 264-285: the next entry of the listing
NextFolder ==
    /\ pc = "loop"
    /\ idx <= Len(listing)
    /\ LET folder == listing[idx]
       IN  IF skip_entry(folder, dirs)
           THEN /\ Continue
                /\ calls' = << >>
                /\ UNCHANGED searched
           ELSE LET sanitized == sanitize_folder_name(folder)
                    y         == extract_year(folder)
                    name      == IF y # None /\ ~Contains(sanitized, y)
                                 THEN sanitized \o << " " >> \o y
                                 ELSE sanitized
                IN  /\ sanitized_name' = name
                    /\ year' = y
                    /\ BeginLookup("sanitized", name, << >>)
                    /\ UNCHANGED << idx, choices, final_choice >>
    /\ UNCHANGED << base_exists, listing, dirs, dry_run, prompted, renames, reports >>
    /\ UNCHANGED answer
    /\ UNCHANGED << retryVars, rankVars, lookupVars, nameVars, promptVars, poolVars >>

\* the for loop is over
Finish ==
    /\ pc = "loop"
    /\ idx > Len(listing)
    /\ pc' = "done"
    /\ UNCHANGED << base_exists, listing, dirs, dry_run, idx, sanitized_name, year,
                    stage, query, attempts, choices, final_choice, calls, searched,
                    prompted, renames, reports >>
    /\ UNCHANGED answer
    /\ UNCHANGED << retryVars, rankVars, lookupVars, nameVars, promptVars, poolVars >>

(***************************************************************************)
(* get_movie_details (lines 143-160).  What the catalog does during one    *)
(* run of its body: the search fails or returns results; the detail fetch  *)
(* of each result fails (after its own retries) or succeeds; the fetches   *)
(* complete in some order.                                                 *)
(***************************************************************************)
CompletionOrders(n) ==
    { p \in [ 1..n -> 1..n ] : \A i, j \in 1..n : i # j => p[i] # p[j] }

\* the results of a search: some movies of the catalog, in the order of the
\* catalog, at most n of them
SearchResults(n) ==
    LET catalog == CHOOSE s \in [ 1..Cardinality(Movies) -> Movies ] :
                       \A i, j \in 1..Cardinality(Movies) : i # j => s[i] # s[j]
        Pick(S) == SelectSeq(catalog, LAMBDA m : m \in S)
    IN  { Pick(S) : S \in { X \in SUBSET Movies : Cardinality(X) <= n } }

CatalogBehaviours ==
    { [ search_ok |-> FALSE, results |-> << >>, failed |-> {}, order |-> << >> ] } \cup
    UNION { { [ search_ok |-> TRUE, results |-> r, failed |-> f, order |-> o ] :
                f \in SUBSET (1..Len(r)), o \in CompletionOrders(Len(r)) } :
            r \in SearchResults(MaxHandles) }

\* the body of get_movie_details: the outcome of future.result() for the
\* futures in the order as_completed yields them.  The first failed fetch
\* raises out of the loop, and the except branch raises it again.
get_movie_details_body(env) ==
    LET search_results == SubSeq(env.results, 1,
                              IF Len(env.results) < MAX_SEARCH_RESULTS
                              THEN Len(env.results) ELSE MAX_SEARCH_RESULTS)
        completed == [ k \in 1..Len(search_results) |-> env.order[k] ]
        collect[k \in 0..Len(completed)] ==
            IF k = 0 THEN [ raised |-> FALSE, details |-> << >> ]
            ELSE IF collect[k - 1].raised THEN collect[k - 1]
            ELSE IF completed[k] \in env.failed
                 THEN [ raised |-> TRUE, details |-> << >> ]
                 ELSE [ raised  |-> FALSE,
                        details |-> Append(collect[k - 1].details,
                                           search_results[completed[k]]) ]
    IN  IF ~env.search_ok THEN [ raised |-> TRUE, details |-> << >> ]
        ELSE IF search_results = << >> THEN [ raised |-> FALSE, details |-> << >> ]
        ELSE collect[Len(completed)]

\* what a run of the body can do: raise, or return a list of details
BodyOutcomes == { get_movie_details_body(env) : env \in CatalogBehaviours }

SetResult(cs, r) == [ cs EXCEPT ![Len(cs)].result = r ]

\* lines 286-301: the choices of step 1 are sorted; lines 318-326, 342-350 and
\* 369-377 build the choices of the later steps and do not sort them
choices_of(st, details, y) ==
    IF st = "sanitized" THEN rank(details, y) ELSE details

\* steps 3 and 4 in the other order
next_step_core_first(st, sanitized) ==
    LET simplified_name == simplify_name(sanitized)
        core_title      == extract_core_title(simplified_name)
    IN  IF st = "sanitized"
        THEN [ to |-> "lookup", stage |-> "core-title", query |-> core_title ]
        ELSE IF st = "core-title"
        THEN [ to |-> "lookup", stage |-> "simplified", query |-> simplified_name ]
        ELSE IF st = "simplified"
        THEN [ to |-> "ask_retry", stage |-> st, query |-> << >> ]
        ELSE [ to |-> "loop", stage |-> st, query |-> << >> ]

\* steps 3 and 4 without the comparison with the query before
next_step_always(st, sanitized) ==
    LET simplified_name == simplify_name(sanitized)
        core_title      == extract_core_title(simplified_name)
    IN  IF st = "sanitized"
        THEN [ to |-> "lookup", stage |-> "simplified", query |-> simplified_name ]
        ELSE IF st = "simplified"
        THEN [ to |-> "lookup", stage |-> "core-title", query |-> core_title ]
        ELSE IF st = "core-title"
        THEN [ to |-> "ask_retry", stage |-> st, query |-> << >> ]
        ELSE [ to |-> "loop", stage |-> st, query |-> << >> ]

\* the step after a step that found nothing: lines 312-317, 336-341, 360-368
\* and the end of the loop body
next_step(st, sanitized) ==
    LET simplified_name == simplify_name(sanitized)
        core_title      == extract_core_title(simplified_name)
        step4 == IF core_title # simplified_name
                 THEN [ to |-> "lookup", stage |-> "core-title", query |-> core_title ]
                 ELSE [ to |-> "ask_retry", stage |-> st, query |-> << >> ]
    IN  IF st = "sanitized"
        THEN IF simplified_name # sanitized
             THEN [ to |-> "lookup", stage |-> "simplified", query |-> simplified_name ]
             ELSE step4
        ELSE IF st = "simplified" THEN step4
        ELSE IF st = "core-title"
             THEN [ to |-> "ask_retry", stage |-> st, query |-> << >> ]
        ELSE [ to |-> "loop", stage |-> st, query |-> << >> ]

\* one run of the body of get_movie_details under its retry wrapper, and, when
\* the call returns, main up to its next prompt or lookup
LookupAttempt ==
    /\ pc = "lookup"
    /\ retry_may_call(attempts, MAX_RETRIES)
    /\ \E out \in BodyOutcomes :
              IF out.raised
              THEN LET r == retry_on_error(attempts, MAX_RETRIES)
                   IN  \* time.sleep and the next attempt, or the error leaves
                       \* the wrapper and main, which does not catch it
                       /\ attempts' = r.attempts
                       /\ pc' = IF r.reraise THEN "crashed" ELSE "lookup"
                       /\ calls' = IF r.reraise THEN SetResult(calls, "raised") ELSE calls
                       /\ UNCHANGED << idx, sanitized_name, year, stage, query, choices,
                                       final_choice, searched, prompted >>
              ELSE LET found == choices_of(stage, out.details, year)
                       next  == next_step(stage, sanitized_name)
                   IN  IF found # << >>
                       THEN /\ choices' = found
                            /\ pc' = "prompt"
                            /\ attempts' = 0
                            /\ prompted' = prompted \cup { idx }
                            /\ calls' = SetResult(calls, "found")
                            /\ UNCHANGED << idx, sanitized_name, year, stage, query,
                                            final_choice, searched >>
                       ELSE IF next.to = "lookup"
                       THEN /\ BeginLookup(next.stage, next.query,
                                           SetResult(calls, "empty"))
                            /\ UNCHANGED << idx, sanitized_name, year, choices,
                                            final_choice, prompted >>
                       ELSE IF next.to = "ask_retry"
                       THEN /\ pc' = "ask_retry"
                            /\ attempts' = 0
                            /\ prompted' = prompted \cup { idx }
                            /\ calls' = SetResult(calls, "empty")
                            /\ UNCHANGED << idx, sanitized_name, year, stage, query,
                                            choices, final_choice, searched >>
                       ELSE /\ Continue
                            /\ calls' = SetResult(calls, "empty")
                            /\ UNCHANGED << searched, prompted >>
    /\ UNCHANGED << base_exists, listing, dirs, dry_run, renames, reports >>
    /\ UNCHANGED answer
    /\ UNCHANGED << retryVars, rankVars, lookupVars, nameVars, promptVars, poolVars >>

(***************************************************************************)
(* prompt_user_choice (lines 162-195): one answer of the operator          *)
(***************************************************************************)
custom_choice(name) == [ title |-> name, custom |-> TRUE ]

\* the function returns: main goes on to rename_folder, and the list is not
\* read again
Chosen(choice) ==
    /\ final_choice' = choice
    /\ choices' = << >>
    /\ pc' = "rename"

\* a prompt that returns nothing for a number that is not on the list
prompt_answer_gives_up(choice_list, user_input) ==
    IF IsDigits(user_input)
    THEN LET choice_number == StrToInt(user_input)
         IN  IF 1 <= choice_number /\ choice_number <= Len(choice_list)
             THEN [ to |-> "return", choice |-> choice_list[choice_number] ]
             ELSE IF choice_number = Len(choice_list) + 1
             THEN [ to |-> "custom", choice |-> NoChoice ]
             ELSE [ to |-> "return", choice |-> NoChoice ]
    ELSE IF user_input # << >>
    THEN [ to |-> "return", choice |-> custom_choice(user_input) ]
    ELSE [ to |-> "again", choice |-> NoChoice ]

\* lines 176-193: what the loop does with a line typed at "Enter the number
\* of your choice or custom name": return a choice, ask for the custom name,
\* or ask again
prompt_answer(choice_list, user_input) ==
    IF IsDigits(user_input)
    THEN LET choice_number == StrToInt(user_input)
         IN  IF 1 <= choice_number /\ choice_number <= Len(choice_list)
             THEN [ to |-> "return", choice |-> choice_list[choice_number] ]
             ELSE IF choice_number = Len(choice_list) + 1
             THEN [ to |-> "custom", choice |-> NoChoice ]
             ELSE [ to |-> "again", choice |-> NoChoice ]
    ELSE IF user_input # << >>
    THEN [ to |-> "return", choice |-> custom_choice(user_input) ]
    ELSE [ to |-> "again", choice |-> NoChoice ]

\* lines 182-185: what the loop does with a line typed at "Enter the custom
\* name"
custom_name_answer(custom_name) ==
    IF custom_name # << >>
    THEN [ to |-> "return", choice |-> custom_choice(custom_name) ]
    ELSE [ to |-> "again", choice |-> NoChoice ]

\* lines 173-193: the answer to "Enter the number of your choice or custom name"
PromptInput ==
    /\ pc = "prompt"
    /\ \E typed \in OperatorInputs :
          LET out == prompt_answer(choices, Strip(typed))
          IN  IF out.to = "return" THEN Chosen(out.choice)
              ELSE IF out.to = "custom"
              THEN /\ pc' = "prompt_custom"
                   /\ UNCHANGED << choices, final_choice >>
              ELSE UNCHANGED << pc, choices, final_choice >>
    /\ UNCHANGED << base_exists, listing, dirs, dry_run, idx, sanitized_name, year,
                    stage, query, attempts, calls, searched, prompted, renames,
                    reports >>
    /\ UNCHANGED answer
    /\ UNCHANGED << retryVars, rankVars, lookupVars, nameVars, promptVars, poolVars >>

\* lines 181-185: the answer to "Enter the custom name"
PromptCustomName ==
    /\ pc = "prompt_custom"
    /\ \E typed \in CustomNames :
          LET out == custom_name_answer(Strip(typed))
          IN  IF out.to = "return" THEN Chosen(out.choice)
              ELSE /\ pc' = "prompt"
                   /\ UNCHANGED << choices, final_choice >>
    /\ UNCHANGED << base_exists, listing, dirs, dry_run, idx, sanitized_name, year,
                    stage, query, attempts, calls, searched, prompted, renames,
                    reports >>
    /\ UNCHANGED answer
    /\ UNCHANGED << retryVars, rankVars, lookupVars, nameVars, promptVars, poolVars >>

(***************************************************************************)
(* rename_folder (lines 198-217), called with the operator's choice, which *)
(* is never falsy (lines 305, 329, 353, 380)                               *)
(***************************************************************************)
\* a rename_folder that does not look at dry_run
rename_folder_always(choice, dry, os_ok) ==
    IF ~HasDetails(choice)
    THEN [ raised |-> TRUE, reported |-> FALSE, called |-> FALSE, done |-> FALSE ]
    ELSE [ raised |-> FALSE, reported |-> dry, called |-> TRUE, done |-> os_ok ]

\* a rename_folder that does not catch the error of os.rename
rename_folder_uncaught(choice, dry, os_ok) ==
    IF ~HasDetails(choice)
    THEN [ raised |-> TRUE, reported |-> FALSE, called |-> FALSE, done |-> FALSE ]
    ELSE IF dry
    THEN [ raised |-> FALSE, reported |-> TRUE, called |-> FALSE, done |-> FALSE ]
    ELSE [ raised |-> ~os_ok, reported |-> FALSE, called |-> TRUE, done |-> os_ok ]

\* what a call does, given whether os.rename would succeed: whether the
\* target is reported only, whether os.rename is called, and whether an
\* exception leaves the function.  A choice without year and rating raises
\* KeyError at line 201; an error of os.rename is caught and printed.
rename_folder(choice, dry, os_ok) ==
    IF ~HasDetails(choice)
    THEN [ raised |-> TRUE, reported |-> FALSE, called |-> FALSE, done |-> FALSE ]
    ELSE IF dry
    THEN [ raised |-> FALSE, reported |-> TRUE, called |-> FALSE, done |-> FALSE ]
    ELSE [ raised |-> FALSE, reported |-> FALSE, called |-> TRUE, done |-> os_ok ]

RenameFolder ==
    /\ pc = "rename"
    /\ \E os_ok \in BOOLEAN :
          LET folder == listing[idx]
              out    == rename_folder(final_choice, dry_run, os_ok)
              entry  == [ folder |-> idx, src |-> folder,
                          dst |-> safe_new_name(final_choice) ]
          IN  /\ reports' = IF out.reported THEN Append(reports, entry) ELSE reports
              /\ renames' = IF out.called
                            THEN Append(renames, [ folder |-> idx, src |-> folder,
                                                   dst |-> safe_new_name(final_choice),
                                                   done |-> out.done ])
                            ELSE renames
              /\ dirs' = IF out.called /\ out.done
                         THEN (dirs \ { folder }) \cup { safe_new_name(final_choice) }
                         ELSE dirs
              /\ IF out.raised
                 THEN \* nothing in main catches it
                      /\ pc' = "crashed"
                      /\ UNCHANGED << idx, sanitized_name, year, stage, query, attempts,
                                      choices, final_choice >>
                 ELSE Continue
    /\ UNCHANGED << base_exists, listing, dry_run, calls, searched, prompted >>
    /\ UNCHANGED answer
    /\ UNCHANGED << retryVars, rankVars, lookupVars, nameVars, promptVars, poolVars >>

(***************************************************************************)
(* Step 5 of main (lines 360-388)                                          *)
(***************************************************************************)
\* lines 362 and 364: the operator types a line at a question of step 5
OperatorTypes ==
    /\ pc \in { "ask_retry", "ask_custom" }
    /\ answer = << >>
    /\ \E line \in IF pc = "ask_retry" THEN OperatorInputs ELSE CustomNames :
          answer' = << line >>
    /\ UNCHANGED << base_exists, listing, dirs, dry_run, idx, pc, sanitized_name, year,
                    stage, query, attempts, choices, final_choice, calls, searched,
                    prompted, renames, reports >>
    /\ UNCHANGED << retryVars, rankVars, lookupVars, nameVars, promptVars, poolVars >>

\* a step 5 that asks for a name unless the answer is "no"
wants_retry_unless_no(user_input) == user_input # << "n", "o" >>

\* line 363: if user_input == "yes"
wants_retry(user_input) == user_input = << "y", "e", "s" >>

\* line 362: the answer to "Would you like to retry with a custom name?"
AskRetry ==
    /\ pc = "ask_retry"
    /\ answer # << >>
    /\ answer' = << >>
    /\ LET user_input == StrLower(Strip(answer[1]))
       IN  IF wants_retry(user_input)
           THEN /\ pc' = "ask_custom"
                /\ UNCHANGED << idx, sanitized_name, year, stage, query, attempts,
                                choices, final_choice >>
           ELSE Continue
    /\ UNCHANGED << base_exists, listing, dirs, dry_run, calls, searched, prompted,
                    renames, reports >>
    /\ UNCHANGED << retryVars, rankVars, lookupVars, nameVars, promptVars, poolVars >>

\* line 364: the answer to "Enter the custom name to retry"
AskCustomName ==
    /\ pc = "ask_custom"
    /\ answer # << >>
    /\ answer' = << >>
    /\ LET custom_name == Strip(answer[1])
       IN  IF custom_name # << >>
           THEN /\ BeginLookup("custom", custom_name, calls)
                /\ UNCHANGED << idx, sanitized_name, year, choices, final_choice >>
           ELSE /\ Continue
                /\ UNCHANGED << calls, searched >>
    /\ UNCHANGED << base_exists, listing, dirs, dry_run, prompted, renames, reports >>
    /\ UNCHANGED << retryVars, rankVars, lookupVars, nameVars, promptVars, poolVars >>

MainNext ==
    \/ Start
    \/ NextFolder
    \/ Finish
    \/ LookupAttempt
    \/ PromptInput
    \/ PromptCustomName
    \/ RenameFolder
    \/ OperatorTypes
    \/ AskRetry
    \/ AskCustomName

(***************************************************************************)
(* The retry decorator, one wrapped call (lines 42-59)                     *)
(***************************************************************************)
MaxRetriesBound == 4

FuncValues == { "v1", "v2" }

FuncErrors == { "e1", "e2" }

IdleRetry ==
    /\ rt_max = 0
    /\ rt_pc = "idle"
    /\ rt_attempts = 0
    /\ rt_result = "none"
    /\ rt_log = << >>
    /\ rt_sleeps = 0

\* wrapper(*args, **kwargs) is entered: attempts = 0
InitRetry ==
    /\ rt_max \in 0..MaxRetriesBound
    /\ rt_pc = "call"
    /\ rt_attempts = 0
    /\ rt_result = "none"
    /\ rt_log = << >>
    /\ rt_sleeps = 0

\* lines 47-53: the function is called; it returns, or it raises and the
\* wrapper raises the error again or goes on to sleep
RetryCall ==
    /\ rt_pc = "call"
    /\ retry_may_call(rt_attempts, rt_max)
    /\ \/ \E v \in FuncValues :
            /\ rt_log' = Append(rt_log, [ ok |-> TRUE, val |-> v ])
            /\ rt_result' = v
            /\ rt_pc' = "returned"
            /\ UNCHANGED rt_attempts
       \/ \E e \in FuncErrors :
            LET r == retry_on_error(rt_attempts, rt_max)
            IN  /\ rt_log' = Append(rt_log, [ ok |-> FALSE, val |-> e ])
                /\ rt_attempts' = r.attempts
                /\ rt_pc' = IF r.reraise THEN "raised" ELSE "sleep"
                /\ rt_result' = IF r.reraise THEN e ELSE rt_result
    /\ UNCHANGED << rt_max, rt_sleeps >>
    /\ UNCHANGED << mainVars, rankVars, lookupVars, nameVars, promptVars, poolVars >>

\* lines 54-57: the warning and time.sleep(delay)
RetrySleep ==
    /\ rt_pc = "sleep"
    /\ rt_sleeps' = rt_sleeps + 1
    /\ rt_pc' = "call"
    /\ UNCHANGED << rt_max, rt_attempts, rt_result, rt_log >>
    /\ UNCHANGED << mainVars, rankVars, lookupVars, nameVars, promptVars, poolVars >>

\* line 47: the while condition is false and the wrapper returns None
RetryFallThrough ==
    /\ rt_pc = "call"
    /\ ~retry_may_call(rt_attempts, rt_max)
    /\ rt_pc' = "fell_through"
    /\ UNCHANGED << rt_max, rt_attempts, rt_result, rt_log, rt_sleeps >>
    /\ UNCHANGED << mainVars, rankVars, lookupVars, nameVars, promptVars, poolVars >>

RetryNext == RetryCall \/ RetrySleep \/ RetryFallThrough

(***************************************************************************)
(* The sort of step 2 of main (lines 296-301), on its own                  *)
(***************************************************************************)
MaxChoices == 3

RankYears == { 2009, 1999, UnknownYear }

RankVotes == { 5, 100 }

RankTitles == { << "a" >>, << "b" >> }

RankCandidates ==
    { [ title |-> ti, year |-> y, rating |-> 0, votes |-> v ] :
        ti \in RankTitles, y \in RankYears, v \in RankVotes }

\* the sequences over S of length at most n
SeqsUpTo(S, n) == UNION { [ 1..k -> S ] : k \in 0..n }

IdleRank ==
    /\ rk_pc = "idle"
    /\ rk_year = None
    /\ rk_choices = << >>
    /\ rk_input = << >>

InitRank ==
    /\ rk_pc = "unsorted"
    /\ rk_year \in { None, << "2", "0", "0", "9" >> }
    /\ rk_choices \in SeqsUpTo(RankCandidates, MaxChoices)
    /\ rk_input = rk_choices

SortChoices ==
    /\ rk_pc = "unsorted"
    /\ rk_choices' = rank(rk_choices, rk_year)
    /\ rk_pc' = "sorted"
    /\ UNCHANGED << rk_year, rk_input >>
    /\ UNCHANGED << mainVars, retryVars, lookupVars, nameVars, promptVars, poolVars >>

RankNext == SortChoices

IdleMain ==
    /\ base_exists = FALSE
    /\ listing = << >>
    /\ dirs = {}
    /\ dry_run = FALSE
    /\ idx = 1
    /\ pc = "idle"
    /\ sanitized_name = << >>
    /\ year = None
    /\ stage = "none"
    /\ query = << >>
    /\ attempts = 0
    /\ choices = << >>
    /\ final_choice = NoChoice
    /\ answer = << >>
    /\ calls = << >>
    /\ searched = {}
    /\ prompted = {}
    /\ renames = << >>
    /\ reports = << >>

IdleLookup ==
    /\ lk_pc = "idle"
    /\ lk_attempts = 0
    /\ lk_results = << >>
    /\ lk_tasks = << >>
    /\ lk_yielded = << >>
    /\ lk_details = << >>
    /\ lk_fetches = [ m \in Movies |-> 0 ]
    /\ lk_searches = 0

(***************************************************************************)
(* One call of get_movie_details (lines 143-160) with the fetches of its   *)
(* thread pool (lines 95-113) as steps of their own                        *)
(***************************************************************************)
InitLookup ==
    /\ lk_pc = "call"
    /\ lk_attempts = 0
    /\ lk_results = << >>
    /\ lk_tasks = << >>
    /\ lk_yielded = << >>
    /\ lk_details = << >>
    /\ lk_fetches = [ m \in Movies |-> 0 ]
    /\ lk_searches = 0

\* a slice that keeps everything
Take_all(s, n) == s

Take(s, n) == SubSeq(s, 1, IF Len(s) < n THEN Len(s) ELSE n)

TasksIn(states) == { k \in 1..Len(lk_tasks) : lk_tasks[k].state \in states }

\* line 147, and lines 148-152 when the search returns: the body starts; the
\* search raises, returns nothing, or returns results whose fetches are
\* submitted to the pool
LkSearch ==
    /\ lk_pc = "call"
    /\ retry_may_call(lk_attempts, MAX_RETRIES)
    /\ lk_searches' = lk_searches + 1
    /\ \/ LET r == retry_on_error(lk_attempts, MAX_RETRIES)
          IN  /\ lk_attempts' = r.attempts
              /\ lk_pc' = IF r.reraise THEN "raised" ELSE "call"
              /\ lk_results' = << >>
              /\ lk_tasks' = << >>
              /\ lk_yielded' = << >>
              /\ lk_details' = << >>
       \/ \E found \in SearchResults(MaxHandles) :
            LET search_results == Take(found, MAX_SEARCH_RESULTS)
            IN  /\ lk_results' = search_results
                /\ lk_tasks' = [ k \in 1..Len(search_results) |->
                                    [ state |-> "queued", attempts |-> 0 ] ]
                /\ lk_yielded' = << >>
                /\ lk_details' = << >>
                /\ lk_pc' = IF search_results = << >> THEN "returned" ELSE "fetching"
                /\ UNCHANGED lk_attempts
    /\ UNCHANGED lk_fetches
    /\ UNCHANGED << mainVars, retryVars, rankVars, nameVars, promptVars, poolVars >>

\* a worker of the pool takes the next submitted fetch; the pool has
\* THREAD_POOL_WORKERS workers
LkStart(k) ==
    /\ lk_pc \in { "fetching", "draining" }
    /\ k \in TasksIn({ "queued" })
    /\ \A j \in 1..(k - 1) : lk_tasks[j].state # "queued"
    /\ Cardinality(TasksIn({ "running" })) < THREAD_POOL_WORKERS
    /\ lk_tasks' = [ lk_tasks EXCEPT ![k].state = "running" ]
    /\ UNCHANGED << lk_pc, lk_attempts, lk_results, lk_yielded, lk_details,
                    lk_fetches, lk_searches >>
    /\ UNCHANGED << mainVars, retryVars, rankVars, nameVars, promptVars, poolVars >>

\* lines 98-112 under the retry wrapper of fetch_movie_details: one
\* ia.get_movie; it returns, or it raises and the fetch is tried again or fails
LkFetch(k) ==
    /\ lk_pc \in { "fetching", "draining" }
    /\ k \in TasksIn({ "running" })
    /\ retry_may_call(lk_tasks[k].attempts, MAX_RETRIES)
    /\ lk_fetches' = [ lk_fetches EXCEPT ![lk_results[k]] = @ + 1 ]
    /\ \/ lk_tasks' = [ lk_tasks EXCEPT ![k].state = "done" ]
       \/ LET r == retry_on_error(lk_tasks[k].attempts, MAX_RETRIES)
          IN  lk_tasks' = [ lk_tasks EXCEPT
                              ![k].attempts = r.attempts,
                              ![k].state = IF r.reraise THEN "failed" ELSE "running" ]
    /\ UNCHANGED << lk_pc, lk_attempts, lk_results, lk_yielded, lk_details, lk_searches >>
    /\ UNCHANGED << mainVars, retryVars, rankVars, nameVars, promptVars, poolVars >>

\* lines 153-156: as_completed yields a finished future; future.result()
\* returns the details, which are appended, or raises the error of the fetch
LkYield(k) ==
    /\ lk_pc = "fetching"
    /\ k \in TasksIn({ "done", "failed" })
    /\ \A i \in 1..Len(lk_yielded) : lk_yielded[i] # k
    /\ lk_yielded' = Append(lk_yielded, k)
    /\ IF lk_tasks[k].state = "done"
       THEN /\ lk_details' = Append(lk_details, lk_results[k])
            /\ UNCHANGED lk_pc
       ELSE /\ lk_pc' = "draining"
            /\ UNCHANGED lk_details
    /\ UNCHANGED << lk_attempts, lk_results, lk_tasks, lk_fetches, lk_searches >>
    /\ UNCHANGED << mainVars, retryVars, rankVars, nameVars, promptVars, poolVars >>

\* line 157: every future was yielded; the details are returned
LkReturn ==
    /\ lk_pc = "fetching"
    /\ Len(lk_yielded) = Len(lk_results)
    /\ lk_pc' = "returned"
    /\ UNCHANGED << lk_attempts, lk_results, lk_tasks, lk_yielded, lk_details,
                    lk_fetches, lk_searches >>
    /\ UNCHANGED << mainVars, retryVars, rankVars, nameVars, promptVars, poolVars >>

\* an error left the loop: the with block waits for the fetches still in the
\* pool, lines 158-160 log the error and raise it, and the wrapper of
\* get_movie_details raises it again or runs the body again
LkAbort ==
    /\ lk_pc = "draining"
    /\ TasksIn({ "queued", "running" }) = {}
    /\ LET r == retry_on_error(lk_attempts, MAX_RETRIES)
       IN  /\ lk_attempts' = r.attempts
           /\ lk_pc' = IF r.reraise THEN "raised" ELSE "call"
    /\ UNCHANGED << lk_results, lk_tasks, lk_yielded, lk_details, lk_fetches,
                    lk_searches >>
    /\ UNCHANGED << mainVars, retryVars, rankVars, nameVars, promptVars, poolVars >>

LookupNext ==
    \/ LkSearch
    \/ \E k \in 1..MaxHandles : LkStart(k) \/ LkFetch(k) \/ LkYield(k)
    \/ LkReturn
    \/ LkAbort

(***************************************************************************)
(* The name functions (lines 64-84, 220-231) applied to a folder name      *)
(***************************************************************************)
MaxTokens == 2

\* the parts folder names are made of: a title word, years in and out of
\* 1900..CURRENT_YEAR, a resolution, a bracketed tag, words of
\* EXTRANEOUS_WORDS in several spellings
NameTokens ==
    { << "U", "p" >>,
      << "2", "0", "0", "9" >>,
      << "2", "0", "9", "9" >>,
      << "1", "8", "9", "9" >>,
      << "7", "2", "0", "p" >>,
      << "[", "x", "]" >>,
      << "B", "l", "u", "R", "a", "y" >>,
      << "y", "t", "s" >> }

NameSeparators == { << " " >>, << "." >>, << "_" >> }

\* the names of at most n tokens with a separator between two tokens
NamesUpTo(n) ==
    LET upto[k \in 1..n] ==
            IF k = 1 THEN NameTokens
            ELSE upto[k - 1] \cup
                 { s \o sep \o tok : s \in upto[k - 1], sep \in NameSeparators,
                                     tok \in NameTokens }
    IN  upto[n]

IdleNames ==
    /\ nm_pc = "idle"
    /\ nm_name = << >>
    /\ nm_sanitized = << >>
    /\ nm_out = << >>

InitNames ==
    /\ nm_pc = "input"
    /\ nm_name \in NamesUpTo(MaxTokens)
    /\ nm_sanitized = << >>
    /\ nm_out = << >>

\* line 275: sanitize_folder_name(folder)
NmSanitize ==
    /\ nm_pc = "input"
    /\ nm_sanitized' = sanitize_folder_name(nm_name)
    /\ nm_pc' = "sanitized"
    /\ UNCHANGED << nm_name, nm_out >>
    /\ UNCHANGED << mainVars, retryVars, rankVars, lookupVars, promptVars, poolVars >>

\* sanitize_folder_name applied to its own result
NmSanitizeAgain ==
    /\ nm_pc = "sanitized"
    /\ nm_out' = sanitize_folder_name(nm_sanitized)
    /\ nm_pc' = "sanitized_twice"
    /\ UNCHANGED << nm_name, nm_sanitized >>
    /\ UNCHANGED << mainVars, retryVars, rankVars, lookupVars, promptVars, poolVars >>

\* line 276: extract_year(folder)
NmExtractYear ==
    /\ nm_pc = "input"
    /\ nm_out' = extract_year(nm_name)
    /\ nm_pc' = "year"
    /\ UNCHANGED << nm_name, nm_sanitized >>
    /\ UNCHANGED << mainVars, retryVars, rankVars, lookupVars, promptVars, poolVars >>

\* line 313: simplify_name(sanitized_name)
NmSimplify ==
    /\ nm_pc = "sanitized"
    /\ nm_out' = simplify_name(nm_sanitized)
    /\ nm_pc' = "simplified"
    /\ UNCHANGED << nm_name, nm_sanitized >>
    /\ UNCHANGED << mainVars, retryVars, rankVars, lookupVars, promptVars, poolVars >>

NamesNext == NmSanitize \/ NmSanitizeAgain \/ NmExtractYear \/ NmSimplify

(***************************************************************************)
(* prompt_user_choice (lines 162-195), one call, line by line              *)
(***************************************************************************)
\* the lines the operator can type in a call
PromptLines == OperatorInputs \cup { << "0" >>, << " ", "2", " " >> }

IdlePrompt ==
    /\ pr_pc = "idle"
    /\ pr_choices = << >>
    /\ pr_line = << >>
    /\ pr_result = NoChoice

\* main calls it with a list that is not empty (lines 303, 327, 351, 378)
InitPrompt ==
    /\ pr_pc = "prompt"
    /\ pr_choices \in Arrangements(Movies, MaxHandles) \ { << >> }
    /\ pr_line = << >>
    /\ pr_result = NoChoice

\* the operator types a line at one of the two questions
PrType ==
    /\ pr_pc \in { "prompt", "custom" }
    /\ pr_line = << >>
    /\ \E line \in IF pr_pc = "prompt" THEN PromptLines ELSE CustomNames :
          pr_line' = << line >>
    /\ UNCHANGED << pr_pc, pr_choices, pr_result >>
    /\ UNCHANGED << mainVars, retryVars, rankVars, lookupVars, nameVars, poolVars >>

\* lines 173-193: input() returns the line typed at the first question
PrAnswer ==
    /\ pr_pc = "prompt"
    /\ pr_line # << >>
    /\ pr_line' = << >>
    /\ LET out == prompt_answer(pr_choices, Strip(pr_line[1]))
       IN  /\ pr_pc' = IF out.to = "return" THEN "returned"
                       ELSE IF out.to = "custom" THEN "custom" ELSE "prompt"
           /\ pr_result' = IF out.to = "return" THEN out.choice ELSE pr_result
    /\ UNCHANGED pr_choices
    /\ UNCHANGED << mainVars, retryVars, rankVars, lookupVars, nameVars, poolVars >>

\* lines 181-185: input() returns the line typed at "Enter the custom name"
PrCustomName ==
    /\ pr_pc = "custom"
    /\ pr_line # << >>
    /\ pr_line' = << >>
    /\ LET out == custom_name_answer(Strip(pr_line[1]))
       IN  /\ pr_pc' = IF out.to = "return" THEN "returned" ELSE "prompt"
           /\ pr_result' = IF out.to = "return" THEN out.choice ELSE pr_result
    /\ UNCHANGED pr_choices
    /\ UNCHANGED << mainVars, retryVars, rankVars, lookupVars, nameVars, poolVars >>

PromptNext == PrType \/ PrAnswer \/ PrCustomName

(***************************************************************************)
(* The thread pool of get_movie_details (lines 147-157): one run of the    *)
(* body with up to MaxFound search results, each fetch_movie_details call  *)
(* as one step                                                             *)
(***************************************************************************)
MaxFound == 11

\* the numbers of results of the search: none, one, more than the pool has
\* workers, more than MAX_SEARCH_RESULTS
FoundCounts == { 0, 1, THREAD_POOL_WORKERS + 1, MaxFound }

IdlePool ==
    /\ pl_pc = "idle"
    /\ pl_found = 0
    /\ pl_tasks = << >>

InitPool ==
    /\ pl_pc = "call"
    /\ pl_found = 0
    /\ pl_tasks = << >>

PoolTasksIn(states) == { k \in 1..Len(pl_tasks) : pl_tasks[k] \in states }

\* lines 147-151: the search raises, or it returns n results, of which the
\* first MAX_SEARCH_RESULTS are submitted to the pool
PlSearch ==
    /\ pl_pc = "call"
    /\ \/ /\ pl_pc' = "raised"
          /\ UNCHANGED << pl_found, pl_tasks >>
       \/ \E n \in FoundCounts :
            LET search_results == Take([ k \in 1..n |-> k ], MAX_SEARCH_RESULTS)
            IN  /\ pl_found' = n
                /\ pl_tasks' = [ k \in 1..Len(search_results) |-> "queued" ]
                /\ pl_pc' = IF search_results = << >> THEN "returned" ELSE "fetching"
    /\ UNCHANGED << mainVars, retryVars, rankVars, lookupVars, nameVars, promptVars >>

\* a worker of the pool takes the next submitted fetch; the pool has
\* THREAD_POOL_WORKERS workers
PlStart(k) ==
    /\ pl_pc \in { "fetching", "draining" }
    /\ k \in PoolTasksIn({ "queued" })
    /\ \A j \in 1..(k - 1) : pl_tasks[j] # "queued"
    /\ Cardinality(PoolTasksIn({ "running" })) < THREAD_POOL_WORKERS
    /\ pl_tasks' = [ pl_tasks EXCEPT ![k] = "running" ]
    /\ UNCHANGED << pl_pc, pl_found >>
    /\ UNCHANGED << mainVars, retryVars, rankVars, lookupVars, nameVars, promptVars >>

\* fetch_movie_details returns or, after its retries, raises
PlFinish(k) ==
    /\ pl_pc \in { "fetching", "draining" }
    /\ k \in PoolTasksIn({ "running" })
    /\ \E outcome \in { "done", "failed" } :
          pl_tasks' = [ pl_tasks EXCEPT ![k] = outcome ]
    /\ UNCHANGED << pl_pc, pl_found >>
    /\ UNCHANGED << mainVars, retryVars, rankVars, lookupVars, nameVars, promptVars >>

\* line 153: as_completed yields a future whose fetch failed and
\* future.result() raises; the with block waits for the pool
PlFail ==
    /\ pl_pc = "fetching"
    /\ PoolTasksIn({ "failed" }) # {}
    /\ pl_pc' = "draining"
    /\ UNCHANGED << pl_found, pl_tasks >>
    /\ UNCHANGED << mainVars, retryVars, rankVars, lookupVars, nameVars, promptVars >>

\* lines 152-157: as_completed has yielded every future, none failed, and the
\* details are returned
PlReturn ==
    /\ pl_pc = "fetching"
    /\ PoolTasksIn({ "done" }) = 1..Len(pl_tasks)
    /\ pl_pc' = "returned"
    /\ UNCHANGED << pl_found, pl_tasks >>
    /\ UNCHANGED << mainVars, retryVars, rankVars, lookupVars, nameVars, promptVars >>

\* the with block is left once no fetch is queued or running, and lines
\* 158-160 raise the error
PlRaise ==
    /\ pl_pc = "draining"
    /\ PoolTasksIn({ "queued", "running" }) = {}
    /\ pl_pc' = "raised"
    /\ UNCHANGED << pl_found, pl_tasks >>
    /\ UNCHANGED << mainVars, retryVars, rankVars, lookupVars, nameVars, promptVars >>

PoolNext ==
    \/ PlSearch
    \/ \E k \in 1..MAX_SEARCH_RESULTS : PlStart(k) \/ PlFinish(k)
    \/ PlFail
    \/ PlReturn
    \/ PlRaise

vars == << mainVars, retryVars, rankVars, lookupVars, nameVars, promptVars, poolVars >>

\* a run of main()
Init == InitMain /\ IdleRetry /\ IdleRank /\ IdleLookup /\ IdleNames /\ IdlePrompt /\ IdlePool

Next == MainNext

Spec == Init /\ [][Next]_vars

\* one call of a wrapped function
RetryInit == IdleMain /\ InitRetry /\ IdleRank /\ IdleLookup /\ IdleNames /\ IdlePrompt /\ IdlePool

SpecRetry == RetryInit /\ [][RetryNext]_vars

\* one sort of the choices
RankInit == IdleMain /\ IdleRetry /\ InitRank /\ IdleLookup /\ IdleNames /\ IdlePrompt /\ IdlePool

SpecRank == RankInit /\ [][RankNext]_vars

\* one call of get_movie_details
LookupInit == IdleMain /\ IdleRetry /\ IdleRank /\ InitLookup /\ IdleNames /\ IdlePrompt /\ IdlePool

SpecLookup == LookupInit /\ [][LookupNext]_vars

\* the name functions on one folder name
NamesInit == IdleMain /\ IdleRetry /\ IdleRank /\ IdleLookup /\ InitNames /\ IdlePrompt /\ IdlePool

SpecNames == NamesInit /\ [][NamesNext]_vars

\* one call of prompt_user_choice; input() returns once a line is typed
PromptInit ==
    IdleMain /\ IdleRetry /\ IdleRank /\ IdleLookup /\ IdleNames /\ InitPrompt /\ IdlePool

SpecPrompt == PromptInit /\ [][PromptNext]_vars /\ WF_vars(PrAnswer \/ PrCustomName)

\* the thread pool during one run of the body of get_movie_details
PoolInit ==
    IdleMain /\ IdleRetry /\ IdleRank /\ IdleLookup /\ IdleNames /\ IdlePrompt /\ InitPool

SpecPool == PoolInit /\ [][PoolNext]_vars

(***************************************************************************)
(* Properties                                                              *)
(***************************************************************************)
RenamesOf(i) == { k \in 1..Len(renames) : renames[k].folder = i }

ReportsOf(i) == { k \in 1..Len(reports) : reports[k].folder = i }

\* C1: for an entry of the listing whose name already has the canonical
\* form, the run makes no lookup, asks the operator nothing, calls no
\* os.rename and reports no rename, with and without --dry-run.
C1_ProperlyNamedUntouched ==
    \A i \in 1..Len(listing) :
        already_properly_named(listing[i]) =>
            /\ i \notin searched
            /\ i \notin prompted
            /\ RenamesOf(i) = {}
            /\ ReportsOf(i) = {}
            /\ (idx = i => pc \in { "start", "loop" })

\* a run is over that went past a properly named directory
C1_Witness ==
    /\ pc = "done"
    /\ \E i \in 1..Len(listing) :
          already_properly_named(listing[i]) /\ listing[i] \in dirs

StageIndex(st) == CHOOSE k \in 1..Len(Stages) : Stages[k] = st

\* C2: the lookups of one folder are made in the order sanitized,
\* simplified, core-title, custom, each step at most once and the sanitized
\* one first; a lookup is made only when every lookup before it found
\* nothing, and none is made after one that found something.
C2_StageOrder ==
    /\ calls # << >> => calls[1].stage = "sanitized"
    /\ \A i, j \in 1..Len(calls) :
          i < j => StageIndex(calls[i].stage) < StageIndex(calls[j].stage)
    /\ \A i \in 1..(Len(calls) - 1) : calls[i].result = "empty"
    /\ \A i \in 1..Len(calls) :
          calls[i].result = "found" =>
              /\ i = Len(calls)
              /\ pc \in { "prompt", "prompt_custom", "rename", "loop", "done", "crashed" }
    /\ pc = "lookup" <=> (calls # << >> /\ calls[Len(calls)].result = "pending")

\* the sanitized lookup found nothing, the simplified one found something
C2_Witness ==
    /\ Len(calls) = 2
    /\ calls[1].stage = "sanitized" /\ calls[1].result = "empty"
    /\ calls[2].stage = "simplified" /\ calls[2].result = "found"
    /\ pc = "prompt"

\* C3: a step whose query equals the query of the step before makes no
\* lookup: a simplified lookup runs only when simplify_name changes the
\* sanitized name, a core-title lookup runs only when extract_core_title
\* changes the simplified name, and two lookups of automatic steps that
\* follow each other never send the same query.
C3_NoRepeatedQuery ==
    /\ \A i \in 1..(Len(calls) - 1) :
          calls[i + 1].stage # "custom" => calls[i + 1].query # calls[i].query
    /\ (pc = "lookup" /\ stage = "simplified") =>
          /\ query = simplify_name(sanitized_name)
          /\ query # sanitized_name
    /\ (pc = "lookup" /\ stage = "core-title") =>
          \A simplified \in { simplify_name(sanitized_name) } :
             /\ query = extract_core_title(simplified)
             /\ query # simplified

\* the simplified step was skipped, the core-title step was not
C3_Witness ==
    /\ Len(calls) = 2
    /\ calls[2].stage = "core-title"
    /\ simplify_name(calls[1].query) = calls[1].query

\* C4: the sort of step 2 gives a permutation of the choices in which, when
\* the folder name has a year, every choice of that year comes before every
\* other choice (of another or of an unknown year), whatever the votes, and
\* the votes do not increase within each of the two groups; without a year
\* the votes do not increase; choices that agree in both keep their order.
C4_RankStable ==
    LET Match(x) == rk_year # None /\ x.year = StrToInt(rk_year)
        Class(s, b, v) == SelectSeq(s, LAMBDA x : Match(x) = b /\ x.votes = v)
    IN  rk_pc = "sorted" =>
           /\ Len(rk_choices) = Len(rk_input)
           /\ \A i, j \in 1..Len(rk_choices) :
                 i < j => /\ Match(rk_choices[j]) => Match(rk_choices[i])
                          /\ Match(rk_choices[i]) = Match(rk_choices[j])
                                => rk_choices[i].votes >= rk_choices[j].votes
           /\ \A b \in BOOLEAN, v \in RankVotes :
                 Class(rk_choices, b, v) = Class(rk_input, b, v)

\* a sorted list in which a choice of the year with few votes was moved
\* before a choice of another year with many votes, and two different
\* choices with equal keys follow each other
C4_Witness ==
    /\ rk_pc = "sorted"
    /\ rk_year # None
    /\ Len(rk_choices) = 3
    /\ rk_input[3].year = StrToInt(rk_year) /\ rk_input[3].votes = 5
    /\ rk_input[1].year # StrToInt(rk_year) /\ rk_input[1].votes = 100
    /\ rk_input[2].year = UnknownYear /\ rk_input[2].votes = 100
    /\ rk_input[1] # rk_input[2]
    /\ rk_choices = << rk_input[3], rk_input[1], rk_input[2] >>

\* C5: a call of a function wrapped by retry(N): the function is invoked
\* again only after it raised, and never more than N times; when it returns
\* at invocation k <= N the wrapper returns that value after exactly these k
\* invocations; when it raised N times the wrapper raises the last error after
\* exactly N invocations; time.sleep is called once between two invocations
\* and not after the last.
C5_RetryBounded ==
    LET n == Len(rt_log)
    IN  /\ n <= rt_max
        /\ \A k \in 1..(n - 1) : ~rt_log[k].ok
        /\ rt_pc = "returned" <=> (n >= 1 /\ rt_log[n].ok)
        /\ rt_pc = "returned" => rt_result = rt_log[n].val
        /\ rt_pc = "raised" <=> (n >= 1 /\ n = rt_max /\ ~rt_log[n].ok)
        /\ rt_pc = "raised" => rt_result = rt_log[n].val
        /\ rt_pc \in { "returned", "raised", "sleep" } => rt_sleeps = n - 1
        /\ rt_pc = "call" => rt_sleeps = n

\* two failures and a success with max_retries = MAX_RETRIES
C5_Witness ==
    /\ rt_max = MAX_RETRIES
    /\ rt_pc = "returned"
    /\ Len(rt_log) = 3
    /\ ~rt_log[1].ok /\ ~rt_log[2].ok /\ rt_log[3].ok
    /\ rt_sleeps = 2

\* C6: with --dry-run os.rename is never called and the directories of
\* BASE_PATH stay as they were, whatever the catalog returns and the operator
\* chooses; a call of rename_folder with a catalog choice does nothing but
\* report the folder and the target name.
C6_DryRunRenamesNothing ==
    /\ [](dry_run =>
            /\ renames = << >>
            /\ dirs = { listing[i] : i \in 1..Len(listing) } \ FileNames)
    /\ [][(dry_run /\ pc = "rename" /\ HasDetails(final_choice)) =>
            /\ reports' = Append(reports, [ folder |-> idx, src |-> listing[idx],
                                            dst |-> safe_new_name(final_choice) ])
            /\ dirs' = dirs
            /\ pc' = "loop"]_vars

\* a dry run that reported a rename is over
C6_Witness ==
    /\ dry_run
    /\ pc = "done"
    /\ reports # << >>

\* C7: after a lookup whose retries are used up, the run goes on: it is not
\* dead with entries of the listing left.
C7_LookupFailureSkipsFolder ==
    (calls # << >> /\ calls[Len(calls)].result = "raised") =>
        ~(pc = "crashed" /\ idx < Len(listing))

\* C8: a call of get_movie_details in which the fetch of one result failed
\* for good and the fetches of the others succeeded does not raise: it
\* returns the details of the others.
C8_FailedFetchDropped ==
    ( /\ lk_pc \in { "returned", "raised" }
      /\ Len(lk_tasks) >= 2
      /\ Cardinality(TasksIn({ "failed" })) = 1
      /\ Cardinality(TasksIn({ "done" })) = Len(lk_tasks) - 1 )
    => /\ lk_pc = "returned"
       /\ Len(lk_details) = Len(lk_tasks) - 1

\* C9: when os.rename fails the directory keeps its name, the failure is
\* on record, and the loop goes on to the next entry of the listing.
C9_RenameFailureContinues ==
    \A k \in 1..Len(renames) :
        ~renames[k].done =>
            /\ renames[k].src \in dirs
            /\ idx > renames[k].folder

\* the rename of the first entry failed and the second entry was looked up
C9_Witness ==
    /\ pc = "done"
    /\ Len(listing) = 2
    /\ \E k \in 1..Len(renames) : renames[k].folder = 1 /\ ~renames[k].done
    /\ 2 \in searched

\* C10: every target name rename_folder makes is a properly named folder
\* for already_properly_named.
C10_TargetIsProperlyNamed ==
    /\ \A k \in 1..Len(renames) : already_properly_named(renames[k].dst)
    /\ \A k \in 1..Len(reports) : already_properly_named(reports[k].dst)

\* C11: simplify_name removes the words of its argument that equal a word
\* of EXTRANEOUS_WORDS when the case of the letters is ignored, and keeps the
\* other words in their order.
C11_SimplifyIgnoresCase ==
    nm_pc = "simplified" =>
        LET Listed(word) == \E i \in 1..Len(EXTRANEOUS_WORDS) :
                                StrUpper(word) = StrUpper(EXTRANEOUS_WORDS[i])
        IN  nm_out = Join(SelectSeq(Split(nm_sanitized), LAMBDA word : ~Listed(word)))

\* C12: sanitize_folder_name applied to its own result returns that result.
C12_SanitizeIdempotent ==
    nm_pc = "sanitized_twice" => nm_out = nm_sanitized

\* the positions of folder_name where a year-shaped token, \b(19|20)\d{2}\b,
\* starts
YearTokens(folder_name) ==
    { i \in 1..Len(folder_name) : MatchYear(folder_name, i) = 4 }

\* C13: extract_year returns None or the first year-shaped token of the
\* name, and then the token is a year of 1900..CURRENT_YEAR; for a name
\* whose year-shaped tokens are all outside of 1900..CURRENT_YEAR it returns
\* None.
C13_YearInRange ==
    nm_pc = "year" =>
        LET tokens   == YearTokens(nm_name)
            Token(i) == SubSeq(nm_name, i, i + 3)
            InRange(i) == 1900 <= StrToInt(Token(i)) /\ StrToInt(Token(i)) <= CURRENT_YEAR
        IN  /\ nm_out # None =>
                 /\ tokens # {}
                 /\ \E i \in tokens :
                       /\ \A j \in tokens : i <= j
                       /\ nm_out = Token(i)
                       /\ InRange(i)
            /\ (\A i \in tokens : ~InRange(i)) => nm_out = None

\* a name with a year after 1900..CURRENT_YEAR only, for which None was
\* returned
C13_Witness ==
    /\ nm_pc = "year"
    /\ YearTokens(nm_name) # {}
    /\ \A i \in YearTokens(nm_name) : StrToInt(SubSeq(nm_name, i, i + 3)) > CURRENT_YEAR
    /\ nm_out = None

\* C14: at every step, the choices the operator is asked about are in the
\* order of the sort of step 2, by the year of the folder name: the choices
\* of that year first, and the votes not increasing among the choices of
\* that year and among the others.
C14_ChoicesRankedAtEveryStage ==
    pc = "prompt" =>
        LET Match(x) == year # None /\ x.year = StrToInt(year)
        IN  \A i, j \in 1..Len(choices) :
               i < j => /\ Match(choices[j]) => Match(choices[i])
                        /\ Match(choices[i]) = Match(choices[j])
                              => choices[i].votes >= choices[j].votes

\* C15: during one call of get_movie_details, ia.get_movie is invoked at
\* most MAX_RETRIES times for the same movie, also when it keeps failing.
C15_FetchAttemptsBounded ==
    \A m \in Movies : lk_fetches[m] <= MAX_RETRIES

\* C16: the choices the operator is asked about do not depend on the order
\* in which the fetches complete: at every step and for every year of the
\* folder name, the choices made of the details get_movie_details returns
\* are the choices made of the details in the order of the search results.
C16_ChoicesIndependentOfCompletion ==
    (lk_pc = "returned" /\ Len(lk_details) = Len(lk_results)) =>
        \A k \in 1..Len(Stages) : \A y \in { None, << "2", "0", "0", "9" >> } :
            choices_of(Stages[k], lk_details, y) = choices_of(Stages[k], lk_results, y)

\* C17: a custom title the operator gives for a list of choices does not end
\* the run: no exception leaves main with that choice.
C17_CustomTitleNotFatal ==
    "custom" \in DOMAIN final_choice => pc # "crashed"

\* C18: the questions of step 5 are asked only after every lookup of the
\* automatic steps made for the folder found nothing; when the answer to the
\* first is not "yes", or the name typed at the second is empty, the loop
\* goes on to the next entry of the listing without a lookup, a rename or a
\* report.
C18_NoRetrySkipsFolder ==
    /\ [](pc \in { "ask_retry", "ask_custom" } =>
            /\ calls # << >>
            /\ \A i \in 1..Len(calls) :
                  calls[i].result = "empty" /\ calls[i].stage # "custom")
    /\ [][( /\ answer # << >>
            /\ \/ pc = "ask_retry" /\ StrLower(Strip(answer[1])) # << "y", "e", "s" >>
               \/ pc = "ask_custom" /\ Strip(answer[1]) = << >> )
          => /\ pc' = "loop"
             /\ idx' = idx + 1
             /\ calls' = calls
             /\ searched' = searched
             /\ renames' = renames
             /\ reports' = reports
             /\ dirs' = dirs]_vars

\* every lookup for the first entry found nothing, the operator did not ask
\* for a retry or gave no name, and the loop is at the second entry
C18_Witness ==
    /\ pc = "loop"
    /\ idx = 2
    /\ 1 \in prompted
    /\ calls # << >>
    /\ \A i \in 1..Len(calls) : calls[i].result = "empty" /\ calls[i].stage # "custom"
    /\ renames = << >>
    /\ reports = << >>

\* the line typed, as line 173 strips it, and what it is for lines 176-190: a
\* number of the list, the number of the custom option, or a text
PrTyped == Strip(pr_line[1])

PrOnList ==
    /\ IsDigits(PrTyped)
    /\ 1 <= StrToInt(PrTyped)
    /\ StrToInt(PrTyped) <= Len(pr_choices)

PrCustomOption == IsDigits(PrTyped) /\ StrToInt(PrTyped) = Len(pr_choices) + 1

PrText == ~IsDigits(PrTyped) /\ PrTyped # << >>

\* C19: a call of prompt_user_choice with n choices never returns nothing
\* and never raises.  A line that is a number i of 1..n returns choice i; a
\* line that is not a number and not empty returns it as a custom title; the
\* number n + 1 leads to the question for the custom name, where a line that
\* is not empty returns it as a custom title; every other line leads back to
\* the first question.  Once the operator has typed a number of 1..n or a
\* text, the call returns.
C19_PromptReturnsChoice ==
    /\ [](pr_pc \in { "prompt", "custom", "returned" })
    /\ [](pr_pc = "returned" <=> pr_result # NoChoice)
    /\ [][(pr_pc = "prompt" /\ pr_line # << >>) =>
             /\ PrOnList => pr_pc' = "returned" /\ pr_result' = pr_choices[StrToInt(PrTyped)]
             /\ PrText => pr_pc' = "returned" /\ pr_result' = custom_choice(PrTyped)
             /\ PrCustomOption => pr_pc' = "custom" /\ pr_result' = pr_result
             /\ (~PrOnList /\ ~PrText /\ ~PrCustomOption) =>
                   pr_pc' = "prompt" /\ pr_result' = pr_result]_vars
    /\ [][(pr_pc = "custom" /\ pr_line # << >>) =>
             IF PrTyped # << >>
             THEN pr_pc' = "returned" /\ pr_result' = custom_choice(PrTyped)
             ELSE pr_pc' = "prompt" /\ pr_result' = pr_result]_vars
    /\ (pr_pc = "prompt" /\ pr_line # << >> /\ (PrOnList \/ PrText)) ~> pr_pc = "returned"

\* the call returned the second of two choices
C19_Witness ==
    /\ pr_pc = "returned"
    /\ Len(pr_choices) = 2
    /\ pr_result = pr_choices[2]

\* C20: during a run of the body of get_movie_details at most
\* THREAD_POOL_WORKERS fetches are running at a time, at most
\* MAX_SEARCH_RESULTS results of the search are fetched, and the run ends,
\* returning or raising, only when no submitted fetch is queued or running.
C20_PoolBounded ==
    /\ Cardinality(PoolTasksIn({ "running" })) <= THREAD_POOL_WORKERS
    /\ Len(pl_tasks) <= MAX_SEARCH_RESULTS
    /\ Len(pl_tasks) <= pl_found
    /\ pl_pc \in { "returned", "raised" } => PoolTasksIn({ "queued", "running" }) = {}
    /\ pl_pc = "returned" => PoolTasksIn({ "done" }) = 1..Len(pl_tasks)

\* the search returned more than MAX_SEARCH_RESULTS results, every worker of
\* the pool is busy and a fetch is waiting for a worker
C20_Witness ==
    /\ pl_found > MAX_SEARCH_RESULTS
    /\ Len(pl_tasks) = MAX_SEARCH_RESULTS
    /\ Cardinality(PoolTasksIn({ "running" })) = THREAD_POOL_WORKERS
    /\ PoolTasksIn({ "queued" }) # {}

=============================================================================
